---- MODULE Spec2Model ----
(***************************************************************************)
(* Query-generation and safe-execution retry loop of the wireless-network  *)
(* insight assistant: src/app.py (the Streamlit script run for one chat    *)
(* input, lines 226-342) and src/core_agent.py (sanitize_sql,              *)
(* log_query_action, run_workflow).                                        *)
(*                                                                         *)
(* Texts (SQL candidates, model replies, error messages) are sequences of  *)
(* lexemes.  A lexeme is a fixed piece of text; a run of adjacent lexemes  *)
(* is their concatenation, so <<"DROP", "x">> is the text DROPx and        *)
(* <<"DROP", " ", "x">> is DROP x.  The lexemes are chosen so that no      *)
(* keyword or marker of the program arises across a lexeme border.         *)
(* Non-ASCII text of the source is transliterated:                         *)
(*   "AnQuanLanJie"  is the four characters of the violation marker that   *)
(*                   src/app.py:312 looks for (word characters for \b),    *)
(*   "Wu"            is the one-character SQL field of a CHAT_ONLY row,    *)
(*   "ChongShi"      is the retry placeholder question of src/app.py:320,  *)
(*   "~~~"           is the three-backtick fence; the opening fence of a   *)
(*                   SQL block is the two lexemes "~~~", "sql".            *)
(***************************************************************************)
EXTENDS Integers, Sequences, FiniteSets, TLC

VARIABLES
    \* st.session_state and the files the script writes
    chat_history,       \* st.session_state.chat_history: the rolling history
    log,                \* rows of query_logs.csv; <<>> while the file is absent
    \* locals of the script run for one chat input (src/app.py:226-342)
    pc,                 \* "idle" | "try" | "except"
    prompt,             \* the chat input
    res,                \* the latest reply of run_workflow
    sql_to_execute,     \* the current SQL candidate
    chart_type, extracted_title, extracted_comment,
    attempt,            \* the loop index, 0 .. max_retries - 1
    error_msg,          \* str(e) of the exception caught last
    reply_msg,          \* what the success path hands to the presentation layer
    outcome,            \* how the latest script run ended, "none" while it runs
    \* what the collaborators have seen during the current script run
    n_gen,              \* calls of agent.run_workflow
    llm_call,           \* arguments of the latest run_workflow call
    n_exec,             \* calls of agent.con.execute with a candidate
    executed,           \* text passed to the latest such call
    log_mark,           \* Len(log) when the script run began
    failures,           \* the exceptions the try block raised, by attempt
    asked,              \* chat inputs so far in the session
    \* the in-line reply parser on its own
    p_raw,              \* the completion
    p_out,              \* what lines 234-249 make of it, or NotParsed
    p_retry,            \* what lines 322-329 make of it, or NotParsed
    \* sanitize_sql on its own
    san_in,             \* its argument
    san_out             \* its outcome, or NotRun

sessionvars ==
    <<chat_history, log, pc, prompt, res, sql_to_execute, chart_type,
      extracted_title, extracted_comment, attempt, error_msg, reply_msg,
      outcome, n_gen, llm_call, n_exec, executed, log_mark, failures, asked>>
parsevars == <<p_raw, p_out, p_retry>>
sanvars == <<san_in, san_out>>
vars == <<sessionvars, parsevars, sanvars>>

-----------------------------------------------------------------------------
(* Lexemes and their character classes *)

NL == "\n"
SP == " "
MARKER == "AnQuanLanJie"
FENCE == "~~~"

\* White space for str.strip() and the regex class \s.
IsSpace(l) == l \in {SP, NL}

\* Lexemes made of word characters only (regex class \w).
WordLexemes ==
    { "DROP", "drop", "DELETE", "Delete", "UPDATE", "INSERT", "ALTER",
      "TRUNCATE", "GRANT", "REVOKE",
      "SUM", "sum", "COUNT", "AVG", "MAX", "MIN", "GROUP", "BY",
      "LIMIT", "limit", "SELECT", "FROM", "x", "t", "_", "10", "1000",
      "sql", "hello", "line", "bar", "Bar", "multi_bar", "pie", "dual_axis",
      "none", "T1", "T2", "N1", "N2", MARKER }

\* Whether the first (last) character of a lexeme is a word character.
\* "SQL:", "CHART:", "TITLE:", "COMMENT:" begin with a letter and end with a
\* colon.
StartsWord(l) ==
    l \in WordLexemes \cup {"SQL:", "CHART:", "chart:", "TITLE:", "COMMENT:"}
EndsWord(l) == l \in WordLexemes

\* Case folding of the regex flag (?i), on the lexemes that have lower case.
Upper(l) ==
    CASE l = "drop" -> "DROP"
      [] l = "Delete" -> "DELETE"
      [] l = "sum" -> "SUM"
      [] l = "limit" -> "LIMIT"
      [] l = "chart:" -> "CHART:"
      [] l = "Bar" -> "BAR"
      [] l = "bar" -> "BAR"
      [] l = "line" -> "LINE"
      [] l = "pie" -> "PIE"
      [] l = "none" -> "NONE"
      [] l = "multi_bar" -> "MULTI_BAR"
      [] l = "dual_axis" -> "DUAL_AXIS"
      [] OTHER -> l

\* str.lower() on the chart values.
Lower(l) ==
    CASE Upper(l) = "BAR" -> "bar"
      [] Upper(l) = "LINE" -> "line"
      [] Upper(l) = "PIE" -> "pie"
      [] Upper(l) = "NONE" -> "none"
      [] Upper(l) = "MULTI_BAR" -> "multi_bar"
      [] Upper(l) = "DUAL_AXIS" -> "dual_axis"
      [] OTHER -> l

-----------------------------------------------------------------------------
(* String helpers *)

\* All sequences over S of length at most n.
SeqUpTo(S, n) == UNION { [1..k -> S] : k \in 0..n }

\* s[i..j], empty when i > j.
Slice(s, i, j) == IF i > j THEN <<>> ELSE SubSeq(s, i, j)

\* Number of leading / trailing lexemes of s that satisfy the class test.
RECURSIVE LeadingSpaces(_)
LeadingSpaces(s) ==
    IF s = <<>> \/ ~IsSpace(Head(s)) THEN 0 ELSE 1 + LeadingSpaces(Tail(s))

RECURSIVE TrailingSpaces(_)
TrailingSpaces(s) ==
    IF s = <<>> \/ ~IsSpace(s[Len(s)]) THEN 0
    ELSE 1 + TrailingSpaces(Slice(s, 1, Len(s) - 1))

\* str.strip()
Strip(s) ==
    IF LeadingSpaces(s) = Len(s) THEN <<>>
    ELSE Slice(s, LeadingSpaces(s) + 1, Len(s) - TrailingSpaces(s))

\* str.rstrip(';')
RECURSIVE RStripSemi(_)
RStripSemi(s) ==
    IF s = <<>> \/ s[Len(s)] # ";" THEN s
    ELSE RStripSemi(Slice(s, 1, Len(s) - 1))

\* str.replace(l, ""), for a one-lexeme l.
Remove(s, l) == SelectSeq(s, LAMBDA e : e # l)

\* The regex \bKW\b at position i, with (?i): the lexeme is KW in some letter
\* case and neither neighbour continues the word.
WordBoundaryBefore(s, i) == i = 1 \/ ~EndsWord(s[i - 1])
WordBoundaryAfter(s, i) == i = Len(s) \/ ~StartsWord(s[i + 1])
WholeWordAtCI(s, i, kws) ==
    /\ Upper(s[i]) \in kws
    /\ WordBoundaryBefore(s, i)
    /\ WordBoundaryAfter(s, i)

-----------------------------------------------------------------------------
(* core_agent.py: sanitize_sql *)

ForbiddenKeywords ==
    {"DROP", "DELETE", "UPDATE", "INSERT", "ALTER", "TRUNCATE", "GRANT", "REVOKE"}
AggregateKeywords == {"SUM", "COUNT", "AVG", "MAX", "MIN"}

\* str(ValueError(...)) of src/core_agent.py:73
ViolationMsg == <<MARKER, ": destructive SQL is forbidden!">>

\* re.search(r'(?i)\b(DROP|...|REVOKE)\b', sql)
HasForbidden(sql) ==
    \E i \in 1..Len(sql) : WholeWordAtCI(sql, i, ForbiddenKeywords)

\* GROUP BY of the second pattern: the two words with exactly one blank between.
GroupByAt(sql, i) ==
    /\ i + 2 <= Len(sql)
    /\ Upper(sql[i]) = "GROUP" /\ sql[i + 1] = SP /\ Upper(sql[i + 2]) = "BY"
    /\ WordBoundaryBefore(sql, i)
    /\ WordBoundaryAfter(sql, i + 2)

\* re.search(r'(?i)\b(SUM|COUNT|AVG|MAX|MIN|GROUP BY)\b', sql)
HasAggregate(sql) ==
    \E i \in 1..Len(sql) :
        WholeWordAtCI(sql, i, AggregateKeywords) \/ GroupByAt(sql, i)

\* A plausible slip: the LIMIT test without the (?i) flag.
HasLimit_case_sensitive(sql) ==
    \E i \in 1..Len(sql) :
        sql[i] = "LIMIT" /\ WordBoundaryBefore(sql, i) /\ WordBoundaryAfter(sql, i)

\* re.search(r'(?i)\bLIMIT\b', sql)
HasLimit(sql) == \E i \in 1..Len(sql) : WholeWordAtCI(sql, i, {"LIMIT"})

LimitSuffix == <<SP, "LIMIT", SP, "1000">>

Raised(m) == [raised |-> TRUE, msg |-> m, sql |-> <<>>]
Returned(s) == [raised |-> FALSE, msg |-> <<>>, sql |-> s]

\* A plausible slip: the keyword test without the (?i) flag.
sanitize_sql_case_sensitive(sql) ==
    IF \E i \in 1..Len(sql) :
           /\ sql[i] \in ForbiddenKeywords
           /\ WordBoundaryBefore(sql, i) /\ WordBoundaryAfter(sql, i)
    THEN Raised(ViolationMsg)
    ELSE IF ~HasAggregate(sql) /\ ~HasLimit(sql)
         THEN Returned(RStripSemi(Strip(sql)) \o LimitSuffix)
         ELSE Returned(sql)

sanitize_sql(sql) ==
    IF HasForbidden(sql) THEN Raised(ViolationMsg)
    ELSE IF ~HasAggregate(sql) /\ ~HasLimit(sql)
         THEN Returned(RStripSemi(Strip(sql)) \o LimitSuffix)
         ELSE Returned(sql)

-----------------------------------------------------------------------------
(* app.py: the in-line reply parser (lines 234-249 and 322-329) *)

\* Least index of s at or after `from` whose element is in T, 0 when none.
FirstFrom(s, from, T) ==
    IF \E i \in from..Len(s) : s[i] \in T
    THEN CHOOSE i \in from..Len(s) :
             s[i] \in T /\ \A j \in from..(i - 1) : s[j] \notin T
    ELSE 0

\* The text up to the first line break: the first element of str.split('\n'),
\* and what the regex (.*) takes.
FirstLine(s) ==
    LET n == FirstFrom(s, 1, {NL})
    IN  IF n = 0 THEN s ELSE Slice(s, 1, n - 1)

\* str.split('\n')
RECURSIVE SplitLines(_)
SplitLines(s) ==
    LET n == FirstFrom(s, 1, {NL})
    IN  IF n = 0 THEN <<s>>
        ELSE <<Slice(s, 1, n - 1)>> \o SplitLines(Slice(s, n + 1, Len(s)))

\* re.search of the fenced block: the first opening fence (three backticks and
\* the letters sql), then the first three backticks after it.  The group is
\* what lies between, white space at both ends dropped by the two \s*.
FenceOpen(s) ==
    IF \E i \in 1..(Len(s) - 1) : s[i] = FENCE /\ s[i + 1] = "sql"
    THEN CHOOSE i \in 1..(Len(s) - 1) :
             /\ s[i] = FENCE /\ s[i + 1] = "sql"
             /\ \A j \in 1..(i - 1) : ~(s[j] = FENCE /\ s[j + 1] = "sql")
    ELSE 0
FenceClose(s) ==
    IF FenceOpen(s) = 0 THEN 0
    ELSE FirstFrom(s, FenceOpen(s) + 2, {FENCE})
sql_match(s) == FenceClose(s) # 0
sql_group1(s) == Strip(Slice(s, FenceOpen(s) + 2, FenceClose(s) - 1))

\* "SQL:" in res
ContainsSqlMarker(s) == \E i \in 1..Len(s) : s[i] = "SQL:"

\* [line for line in res.split('\n') if line.startswith('SQL:')]
SqlLines(s) ==
    SelectSeq(SplitLines(s), LAMBDA line : line # <<>> /\ line[1] = "SQL:")

\* Lines 234-237.  [..][0] on an empty list raises IndexError.
InitialSql(s) ==
    IF sql_match(s) THEN Returned(sql_group1(s))
    ELSE IF ContainsSqlMarker(s)
         THEN IF SqlLines(s) = <<>> THEN Raised(<<"IndexError">>)
              ELSE Returned(Remove(Strip(Remove(SqlLines(s)[1], "SQL:")), FENCE))
         ELSE Returned(<<>>)

\* Lines 322-323: without a fenced block the first line is the candidate.
RetrySql(s) ==
    IF sql_match(s) THEN sql_group1(s)
    ELSE Strip(Remove(FirstLine(s), "SQL:"))

ChartValues == {"MULTI_BAR", "LINE", "BAR", "PIE", "DUAL_AXIS", "NONE"}

\* Index of the lexeme after the white space that follows position i.
AfterSpaces(s, i) == i + 1 + LeadingSpaces(Slice(s, i + 1, Len(s)))

\* re.search(r'CHART:\s*(multi_bar|line|bar|pie|dual_axis|none)', res, re.I):
\* the position of the first CHART: that a chart value follows, 0 when none.
ChartAt(s) ==
    FirstFrom([i \in 1..Len(s) |->
                  /\ Upper(s[i]) = "CHART:"
                  /\ AfterSpaces(s, i) <= Len(s)
                  /\ Upper(s[AfterSpaces(s, i)]) \in ChartValues],
              1, {TRUE})
chart_match(s) == ChartAt(s) # 0
chart_group1(s) == Lower(s[AfterSpaces(s, ChartAt(s))])

\* re.search(r'<FIELD>\s*(.*)', res, re.I): the first FIELD lexeme, the white
\* space after it (line breaks included), then the rest of that line.
FieldAt(s, field) == FirstFrom([i \in 1..Len(s) |-> Upper(s[i])], 1, {field})
field_group1(s, field) ==
    FirstLine(Slice(s, AfterSpaces(s, FieldAt(s, field)), Len(s)))

DefaultTitle == <<"data visualisation">>

\* Lines 239-249: every field starts from its default.
InitialDirective(s) ==
    [chart_type |-> IF chart_match(s) THEN chart_group1(s) ELSE "none",
     title |-> IF FieldAt(s, "TITLE:") # 0
               THEN Strip(field_group1(s, "TITLE:")) ELSE DefaultTitle,
     comment |-> IF FieldAt(s, "COMMENT:") # 0
                 THEN Strip(field_group1(s, "COMMENT:")) ELSE <<>>]

\* Lines 324-329: a field is reassigned only when the reply has it.
RetryDirective(s, old) ==
    [chart_type |-> IF chart_match(s) THEN chart_group1(s) ELSE old.chart_type,
     title |-> IF FieldAt(s, "TITLE:") # 0
               THEN Strip(field_group1(s, "TITLE:")) ELSE old.title,
     comment |-> IF FieldAt(s, "COMMENT:") # 0
                 THEN Strip(field_group1(s, "COMMENT:")) ELSE old.comment]

-----------------------------------------------------------------------------
(* core_agent.py: log_query_action and run_workflow *)

LogHeader == <<"time", "question", "sql", "status", "error">>

\* One row of query_logs.csv; the time stamp column is left out of the model.
LogRow(question, sql, status, error) ==
    [question |-> question, sql |-> sql, status |-> status, error |-> error]

\* Appends one row, after the header row when the file did not exist.  The
\* write is taken to succeed (the except branch only swallows I/O errors).
log_query_action(file, question, sql, status, error) ==
    (IF file = <<>> THEN <<LogHeader>> ELSE file)
        \o <<LogRow(question, sql, status, error)>>

\* The rows of the file that are records.
Records(file) == IF file = <<>> THEN <<>> ELSE Tail(file)

\* run_workflow returns the completion with surrounding white space removed;
\* the completion itself is the remote model's choice.
run_workflow(user_query, history, completion) == Strip(completion)

LlmCall(user_query, history) == [user_query |-> user_query, history |-> history]

-----------------------------------------------------------------------------
(* app.py: constants and helpers of the retry loop *)

max_retries == 3
HistoryCap == 6

RetryQuestion == <<"ChongShi">>
NoSqlField == <<"Wu">>

Turn(role, content) == [role |-> role, content |-> content]

RepairSuffix == ". fix the column name or the syntax."
FallbackSuffix == ". last chance! output SELECT * FROM table LIMIT 10."

\* A plausible slip: the fallback demand one attempt early.
err_prompt_early_fallback(att, msg) ==
    <<"error: ">> \o msg \o
        <<IF att < max_retries - 3 THEN RepairSuffix ELSE FallbackSuffix>>

\* Line 318.
err_prompt(att, msg) ==
    <<"error: ">> \o msg \o
        <<IF att < max_retries - 2 THEN RepairSuffix ELSE FallbackSuffix>>

\* A plausible slip: comparing the whole message with the marker.
IsSecurityMessage_whole(msg) == msg = <<MARKER>>

\* "AnQuanLanJie" in error_msg (line 312)
IsSecurityMessage(msg) == \E i \in 1..Len(msg) : msg[i] = MARKER

\* chat_history[-6:] when longer than 6 (lines 341-342)
TrimHistory(h) ==
    IF Len(h) > HistoryCap THEN SubSeq(h, Len(h) - HistoryCap + 1, Len(h)) ELSE h

NoReply == [chart |-> "", title |-> <<>>, comment |-> <<>>, sql |-> <<>>]

-----------------------------------------------------------------------------
(* The collaborators: database and presentation layer *)

\* Names a query can refer to; the database names an unknown one in its error.
Identifiers == {"x", "t", "hello", MARKER}

\* The messages agent.con.execute(sql) can raise.
DbErrors(sql) ==
    {<<"Catalog Error: table does not exist">>}
        \cup {<<"Binder Error: column not found: ", sql[i]>> :
                 i \in {j \in 1..Len(sql) : sql[j] \in Identifiers}}

\* What create_chart_figure raises on data it cannot plot.
RenderError == <<"ValueError: could not plot">>

-----------------------------------------------------------------------------
(* app.py: the script run for one chat input, lines 226-342 *)

\* A plausible slip: the candidate itself goes to the database.
safe_sql_unsanitized == sql_to_execute

\* safe_sql of line 255, when sanitize_sql returns.
safe_sql == sanitize_sql(sql_to_execute).sql

\* One caught exception: where it was raised and str(e).
Failure(origin, msg) == [origin |-> origin, msg |-> msg]

\* Lines 226-232: the chat input arrives and the first reply is generated.
Begin(q, completion) ==
    /\ pc = "idle"
    /\ prompt' = q
    /\ res' = run_workflow(q, chat_history, completion)
    /\ llm_call' = LlmCall(q, chat_history)
    /\ n_gen' = 1
    /\ n_exec' = 0
    /\ executed' = <<>>
    /\ log_mark' = Len(log)
    /\ failures' = <<>>
    /\ asked' = asked + 1
    /\ attempt' = 0
    /\ error_msg' = <<>>
    /\ reply_msg' = NoReply
    /\ UNCHANGED <<parsevars, sanvars>>

\* Line 237 raises IndexError: the script run dies there.
SubmitCrash(q, completion) ==
    /\ Begin(q, completion)
    /\ InitialSql(res').raised
    /\ pc' = "idle"
    /\ outcome' = "Crashed"
    /\ sql_to_execute' = <<>>
    /\ chart_type' = "none"
    /\ extracted_title' = DefaultTitle
    /\ extracted_comment' = <<>>
    /\ UNCHANGED <<chat_history, log>>

\* Lines 234-251 and 334-342: no SQL in the reply, a chat turn.
SubmitChat(q, completion) ==
    /\ Begin(q, completion)
    /\ ~InitialSql(res').raised
    /\ InitialSql(res').sql = <<>>
    /\ sql_to_execute' = <<>>
    /\ chart_type' = InitialDirective(res').chart_type
    /\ extracted_title' = InitialDirective(res').title
    /\ extracted_comment' = InitialDirective(res').comment
    /\ log' = log_query_action(log, q, NoSqlField, "CHAT_ONLY", res')
    /\ chat_history' =
           TrimHistory(chat_history \o <<Turn("user", q), Turn("assistant", res')>>)
    /\ pc' = "idle"
    /\ outcome' = "ChatOnly"

\* Lines 234-253: the reply carries SQL, the retry loop is entered.
SubmitQuery(q, completion) ==
    /\ Begin(q, completion)
    /\ ~InitialSql(res').raised
    /\ InitialSql(res').sql # <<>>
    /\ sql_to_execute' = InitialSql(res').sql
    /\ chart_type' = InitialDirective(res').chart_type
    /\ extracted_title' = InitialDirective(res').title
    /\ extracted_comment' = InitialDirective(res').comment
    /\ pc' = "try"
    /\ outcome' = "none"
    /\ UNCHANGED <<chat_history, log>>

\* What no step of the loop body touches.
LoopFrame == UNCHANGED <<prompt, log_mark, asked, parsevars, sanvars>>

\* Line 255 raises: sanitize_sql rejects the candidate.
SanitizeRejects ==
    /\ pc = "try"
    /\ sanitize_sql(sql_to_execute).raised
    /\ error_msg' = sanitize_sql(sql_to_execute).msg
    /\ failures' = Append(failures, Failure("sanitize_sql", error_msg'))
    /\ pc' = "except"
    /\ LoopFrame
    /\ UNCHANGED <<chat_history, log, res, sql_to_execute, chart_type,
                   extracted_title, extracted_comment, attempt, reply_msg,
                   outcome, n_gen, llm_call, n_exec, executed>>

\* Line 256: the candidate passed sanitize_sql and goes to the database.
Execute ==
    /\ pc = "try"
    /\ ~sanitize_sql(sql_to_execute).raised
    /\ n_exec' = n_exec + 1
    /\ executed' = safe_sql
    /\ LoopFrame
    /\ UNCHANGED <<res, sql_to_execute, chart_type, extracted_title,
                   extracted_comment, attempt, n_gen, llm_call>>

\* Line 256 raises: the database reports an error.
ExecuteRaises(e) ==
    /\ Execute
    /\ e \in DbErrors(safe_sql)
    /\ error_msg' = e
    /\ failures' = Append(failures, Failure("database", e))
    /\ pc' = "except"
    /\ UNCHANGED <<chat_history, log, reply_msg, outcome>>

\* Lines 258-261, 307-308: an empty result set.
ExecuteEmpty ==
    /\ Execute
    /\ log' = log_query_action(log, prompt, safe_sql, "SUCCESS_EMPTY", <<>>)
    /\ chat_history' = <<>>
    /\ pc' = "idle"
    /\ outcome' = "EmptySuccess"
    /\ UNCHANGED <<error_msg, reply_msg, failures>>

\* Lines 262-308: rows came back and were rendered.
ExecuteRows ==
    /\ Execute
    /\ reply_msg' = [chart |-> chart_type, title |-> extracted_title,
                     comment |-> extracted_comment, sql |-> safe_sql]
    /\ log' = log_query_action(log, prompt, safe_sql, "SUCCESS", <<>>)
    /\ chat_history' = <<>>
    /\ pc' = "idle"
    /\ outcome' = "Success"
    /\ UNCHANGED <<error_msg, failures>>

\* Lines 266-267 raise: rows came back but create_chart_figure failed on them,
\* inside the same try block and before the SUCCESS row is written.
RenderRaises ==
    /\ Execute
    /\ chart_type # "none"
    /\ error_msg' = RenderError
    /\ failures' = Append(failures, Failure("rendering", RenderError))
    /\ pc' = "except"
    /\ UNCHANGED <<chat_history, log, reply_msg, outcome>>

\* Lines 312-315: the message carries the marker.
Blocked ==
    /\ pc = "except"
    /\ IsSecurityMessage(error_msg)
    /\ log' = log_query_action(log, prompt, sql_to_execute, "BLOCKED", error_msg)
    /\ pc' = "idle"
    /\ outcome' = "Blocked"
    /\ LoopFrame
    /\ UNCHANGED <<chat_history, res, sql_to_execute, chart_type,
                   extracted_title, extracted_comment, attempt, error_msg,
                   reply_msg, n_gen, llm_call, n_exec, executed, failures>>

\* Lines 317-329: the error goes back to the model and a new reply is parsed.
Retry(completion) ==
    /\ pc = "except"
    /\ ~IsSecurityMessage(error_msg)
    /\ attempt < max_retries - 1
    /\ chat_history' =
           Append(chat_history, Turn("user", err_prompt(attempt, error_msg)))
    /\ res' = run_workflow(RetryQuestion, chat_history', completion)
    /\ llm_call' = LlmCall(RetryQuestion, chat_history')
    /\ n_gen' = n_gen + 1
    /\ sql_to_execute' = RetrySql(res')
    /\ LET d == RetryDirective(res',
                    [chart_type |-> chart_type, title |-> extracted_title,
                     comment |-> extracted_comment])
       IN  /\ chart_type' = d.chart_type
           /\ extracted_title' = d.title
           /\ extracted_comment' = d.comment
    /\ attempt' = attempt + 1
    /\ pc' = "try"
    /\ LoopFrame
    /\ UNCHANGED <<log, error_msg, reply_msg, outcome, n_exec, executed,
                   failures>>

\* Lines 330-333: the last attempt failed.
Exhausted ==
    /\ pc = "except"
    /\ ~IsSecurityMessage(error_msg)
    /\ ~(attempt < max_retries - 1)
    /\ log' = log_query_action(log, prompt, sql_to_execute, "FAILED", error_msg)
    /\ chat_history' = <<>>
    /\ pc' = "idle"
    /\ outcome' = "Exhausted"
    /\ LoopFrame
    /\ UNCHANGED <<res, sql_to_execute, chart_type, extracted_title,
                   extracted_comment, attempt, error_msg, reply_msg, n_gen,
                   llm_call, n_exec, executed, failures>>

-----------------------------------------------------------------------------
(* The session: chat inputs and the replies the remote model may give *)

MaxQuestions == 1

Question == <<"Q1">>

\* SQL: line, chart and title; no LIMIT, so sanitize_sql appends one.
cGood == <<"SQL:", SP, "SELECT", SP, "x", NL, "CHART:", SP, "bar", NL,
           "TITLE:", SP, "T1">>
\* A destructive statement in lower case.
cDrop == <<"SQL:", SP, "drop", SP, "t">>
\* Plain conversation, with a trailing line break.
cChat == <<"hello", NL>>
\* The marker SQL: only in the middle of a line.
cMid == <<"hello", SP, "SQL:", SP, "x">>
\* A query that names a column whose name is the violation marker.
cEcho == <<"SQL:", SP, "SELECT", SP, MARKER, SP, "LIMIT", SP, "10">>
\* A fenced block with an aggregate, a comment and no chart or title.
cFence == <<FENCE, "sql", NL, "SELECT", SP, "SUM", SP, "x", NL, FENCE, NL,
            "COMMENT:", SP, "N1">>

Completions == {cGood, cDrop, cChat, cMid, cEcho, cFence}

InitSession ==
    /\ chat_history = <<>>
    /\ log = <<>>
    /\ pc = "idle"
    /\ prompt = <<>>
    /\ res = <<>>
    /\ sql_to_execute = <<>>
    /\ chart_type = "none"
    /\ extracted_title = DefaultTitle
    /\ extracted_comment = <<>>
    /\ attempt = 0
    /\ error_msg = <<>>
    /\ reply_msg = NoReply
    /\ outcome = "none"
    /\ n_gen = 0
    /\ llm_call = LlmCall(<<>>, <<>>)
    /\ n_exec = 0
    /\ executed = <<>>
    /\ log_mark = 0
    /\ failures = <<>>
    /\ asked = 0

\* The stand-alone parser and sanitizer runs, not started.
NotRun == [raised |-> FALSE, msg |-> <<"not run">>, sql |-> <<>>]
NotParsed ==
    [raised |-> FALSE, sql |-> <<"not parsed">>, chart_type |-> "",
     title |-> <<>>, comment |-> <<>>]
ParseIdle == p_raw = <<>> /\ p_out = NotParsed /\ p_retry = NotParsed
SanitizeIdle == san_in = <<>> /\ san_out = NotRun

Init == InitSession /\ ParseIdle /\ SanitizeIdle

\* The next chat input, by what its first reply turns out to be.
AskCrash ==
    asked < MaxQuestions /\ \E c \in Completions : SubmitCrash(Question, c)
AskChat ==
    asked < MaxQuestions /\ \E c \in Completions : SubmitChat(Question, c)
AskQuery ==
    asked < MaxQuestions /\ \E c \in Completions : SubmitQuery(Question, c)

DbRaises == \E e \in DbErrors(safe_sql) : ExecuteRaises(e)
Regenerate == \E c \in Completions : Retry(c)

Next ==
    \/ AskCrash
    \/ AskChat
    \/ AskQuery
    \/ SanitizeRejects
    \/ DbRaises
    \/ ExecuteEmpty
    \/ ExecuteRows
    \/ RenderRaises
    \/ Blocked
    \/ Regenerate
    \/ Exhausted

Spec == Init /\ [][Next]_vars

-----------------------------------------------------------------------------
(* A longer session with few kinds of reply: chat turns and one plain query *)

MaxTalkQuestions == 4

TalkCompletions == {cChat, cGood}

TalkChat ==
    asked < MaxTalkQuestions /\ \E c \in TalkCompletions : SubmitChat(Question, c)
TalkQuery ==
    asked < MaxTalkQuestions /\ \E c \in TalkCompletions : SubmitQuery(Question, c)
TalkRegenerate == \E c \in TalkCompletions : Retry(c)

NextTalk ==
    \/ TalkChat
    \/ TalkQuery
    \/ DbRaises
    \/ ExecuteEmpty
    \/ ExecuteRows
    \/ RenderRaises
    \/ TalkRegenerate
    \/ Exhausted

SpecTalk == Init /\ [][NextTalk]_vars

-----------------------------------------------------------------------------
(* sanitize_sql on its own: every short text over SanAlphabet *)

MaxSqlLen == 3

SanAlphabet ==
    { "DROP", "drop", "Delete", "UPDATE", "INSERT", "ALTER", "TRUNCATE",
      "GRANT", "REVOKE", "SUM", "GROUP", "BY", "LIMIT", "limit", "x", "_",
      SP, ";" }

InitSanitize ==
    /\ InitSession /\ ParseIdle
    /\ san_in \in SeqUpTo(SanAlphabet, MaxSqlLen)
    /\ san_out = NotRun

CallSanitize ==
    /\ san_out = NotRun
    /\ san_out' = sanitize_sql(san_in)
    /\ UNCHANGED <<san_in, sessionvars, parsevars>>

SpecSanitize == InitSanitize /\ [][CallSanitize]_vars

-----------------------------------------------------------------------------
(* The reply parser on its own: every short reply over ParseAlphabet *)

MaxReplyLen == 4

ParseAlphabet ==
    { "SQL:", FENCE, "sql", "CHART:", "chart:", "Bar", "TITLE:", "COMMENT:",
      "x", SP, NL }

InitParse ==
    /\ InitSession /\ SanitizeIdle
    /\ p_raw \in SeqUpTo(ParseAlphabet, MaxReplyLen)
    /\ p_out = NotParsed
    /\ p_retry = NotParsed

Parsed(sql, d) ==
    [raised |-> FALSE, sql |-> sql, chart_type |-> d.chart_type,
     title |-> d.title, comment |-> d.comment]
ParseRaised ==
    [raised |-> TRUE, sql |-> <<>>, chart_type |-> "", title |-> <<>>,
     comment |-> <<>>]

\* The directive of an earlier attempt, for the retry parse to start from.
EarlierDirective == [chart_type |-> "pie", title |-> <<"T2">>, comment |-> <<"N2">>]

\* Lines 232-249 on the completion p_raw.
ParseInitial ==
    /\ p_out = NotParsed
    /\ LET r == run_workflow(Question, <<>>, p_raw)
       IN  p_out' = IF InitialSql(r).raised THEN ParseRaised
                    ELSE Parsed(InitialSql(r).sql, InitialDirective(r))
    /\ UNCHANGED <<p_raw, p_retry, sessionvars, sanvars>>

\* Lines 320-329 on the completion p_raw.
ParseRetry ==
    /\ p_retry = NotParsed
    /\ LET r == run_workflow(RetryQuestion, <<>>, p_raw)
       IN  p_retry' = Parsed(RetrySql(r), RetryDirective(r, EarlierDirective))
    /\ UNCHANGED <<p_raw, p_out, sessionvars, sanvars>>

NextParse == ParseInitial \/ ParseRetry

SpecParse == InitParse /\ [][NextParse]_vars

-----------------------------------------------------------------------------
(* Vocabulary of the properties *)

\* The script run for the latest chat input has ended.
Terminal == pc = "idle" /\ outcome # "none"

\* The records in `file` that were written after it had `mark` rows.
RowsSince(file, mark) ==
    IF mark = 0 THEN Records(file) ELSE Slice(file, mark + 1, Len(file))

\* The text holds one of kws as a whole word, letter case ignored: a lexeme
\* spells it and no word character touches it on either side.
HoldsWord(text, kws) ==
    \E i \in 1..Len(text) :
        /\ Upper(text[i]) \in kws
        /\ i > 1 => ~EndsWord(text[i - 1])
        /\ i < Len(text) => ~StartsWord(text[i + 1])

IsPrefix(a, b) == Len(a) <= Len(b) /\ SubSeq(b, 1, Len(a)) = a

\* The steps that call run_workflow.
FirstGeneration == asked' = asked + 1
RetryGeneration == attempt' = attempt + 1

RepairTurn(msg) == Turn("user", <<"error: ">> \o msg \o <<RepairSuffix>>)
FallbackTurn(msg) == Turn("user", <<"error: ">> \o msg \o <<FallbackSuffix>>)
IsFallbackTurn(t) == t.content # <<>> /\ t.content[Len(t.content)] = FallbackSuffix

\* A reply with no fenced SQL block and no line that begins with SQL:
NoSqlInReply(r) == ~sql_match(r) /\ SqlLines(r) = <<>>

-----------------------------------------------------------------------------
(* Properties of the session *)

\* C1.  Sanitization gate: whenever a candidate reaches agent.con.execute, on the
\* first attempt or on a retry, the text executed is what sanitize_sql returned
\* for the current candidate; it holds no forbidden keyword as a whole word in
\* any letter case, and it holds LIMIT or an aggregation keyword.
C1_SanitizationGate ==
    [][ n_exec' > n_exec =>
          /\ n_exec' = n_exec + 1
          /\ ~sanitize_sql(sql_to_execute).raised
          /\ executed' = sanitize_sql(sql_to_execute).sql
          /\ ~HoldsWord(executed', ForbiddenKeywords)
          /\ \/ HoldsWord(executed', {"LIMIT"})
             \/ HoldsWord(executed', AggregateKeywords)
             \/ \E i \in 1..Len(executed') : GroupByAt(executed', i) ]_vars

\* A third attempt whose candidate had no LIMIT went to the database capped.
C1_Witness ==
    /\ n_exec = 3 /\ attempt = 2
    /\ ~HasLimit(sql_to_execute) /\ ~HasAggregate(sql_to_execute)
    /\ executed = RStripSemi(Strip(sql_to_execute)) \o LimitSuffix

\* C2.  Retry bound: when the first reply yields a candidate and every attempt
\* reaches the database and fails there, the run makes exactly 3 generation
\* calls and 3 executions, ends Exhausted with one FAILED row that carries the
\* third error, and leaves the rolling history empty.
C2_RetryBound ==
    ( /\ Terminal
      /\ outcome \notin {"ChatOnly", "Crashed", "Success", "EmptySuccess"}
      /\ \A i \in 1..Len(failures) : failures[i].origin = "database" )
    => /\ n_gen = 3 /\ n_exec = 3 /\ Len(failures) = 3
       /\ outcome = "Exhausted"
       /\ RowsSince(log, log_mark) =
              <<LogRow(prompt, sql_to_execute, "FAILED", failures[3].msg)>>
       /\ chat_history = <<>>

\* C3.  A security violation short-circuits the retries: a candidate that
\* sanitize_sql rejects, at any attempt, is not executed; the next step ends
\* the run as Blocked with exactly one row for the question, a BLOCKED row that
\* carries the violation message; and nothing is generated or executed for the
\* question afterwards.
C3_ViolationShortCircuits ==
    [][ /\ (pc = "try" /\ sanitize_sql(sql_to_execute).raised) =>
              /\ pc' = "except" /\ error_msg' = ViolationMsg
              /\ n_exec' = n_exec /\ n_gen' = n_gen /\ log' = log
        /\ (pc = "except" /\ sanitize_sql(sql_to_execute).raised) =>
              /\ pc' = "idle" /\ outcome' = "Blocked"
              /\ n_exec' = n_exec /\ n_gen' = n_gen
              /\ n_exec = attempt /\ n_gen = attempt + 1
              /\ RowsSince(log', log_mark') =
                     <<LogRow(prompt, sql_to_execute, "BLOCKED", ViolationMsg)>>
        /\ (pc = "idle" /\ outcome = "Blocked") => FirstGeneration ]_vars

\* The candidate of the third attempt was rejected and the run ended Blocked.
C3_Witness ==
    /\ Terminal /\ outcome = "Blocked"
    /\ sanitize_sql(sql_to_execute).raised
    /\ attempt = 2 /\ n_exec = 2

\* C4.  The rolling history is empty whenever the retry loop has ended, be it
\* in Success, EmptySuccess, Blocked or Exhausted.
C4_HistoryClearedAtExit ==
    (Terminal /\ outcome \in {"Success", "EmptySuccess", "Blocked", "Exhausted"})
    => chat_history = <<>>

\* C5.  Rolling-window bound: the rolling history, and the history handed to
\* run_workflow on any generation call, never hold more than 6 turns.
C5_WindowBound ==
    /\ Len(chat_history) <= HistoryCap
    /\ Len(llm_call.history) <= HistoryCap

\* C6.  Chat-only reclassification: a generation step, first or retry, whose
\* reply has no fenced SQL block and no line beginning with SQL: ends the run
\* as a chat turn: nothing is sanitized or executed, one CHAT_ONLY row is
\* written, and the user turn and the reply join the trimmed history.
C6_ChatOnlyReclassification ==
    [][ ((FirstGeneration \/ RetryGeneration) /\ NoSqlInReply(res')) =>
          /\ pc' = "idle" /\ outcome' = "ChatOnly"
          /\ sql_to_execute' = <<>>
          /\ n_exec' = n_exec \/ n_exec' = 0
          /\ Len(log') > 0 /\ IsPrefix(log, log')
          /\ Len(RowsSince(log', Len(log))) = 1
          /\ log'[Len(log')].status = "CHAT_ONLY"
          /\ chat_history' =
                 TrimHistory(chat_history
                     \o <<Turn("user", prompt'), Turn("assistant", res')>>) ]_vars

\* C7.  Escalating repair prompt: the turn appended before generation 2 is the
\* repair request with the error of attempt 1, the turn appended before
\* generation 3 is the fallback demand with the error of attempt 2, no fallback
\* demand appears before attempt 2 has failed, and nothing is appended or
\* generated after attempt 3 has failed.
C7_EscalatingRepairPrompt ==
    [][ /\ RetryGeneration =>
              /\ attempt' \in {1, 2}
              /\ Len(failures) = attempt'
              /\ chat_history' =
                     Append(chat_history,
                            IF attempt' = 1 THEN RepairTurn(failures[1].msg)
                            ELSE FallbackTurn(failures[2].msg))
              /\ llm_call' = LlmCall(RetryQuestion, chat_history')
              /\ n_gen' = attempt' + 1
        /\ ( /\ Len(chat_history') > Len(chat_history)
             /\ IsFallbackTurn(chat_history'[Len(chat_history')]) ) =>
              Len(failures) = 2
        /\ (pc = "except" /\ Len(failures) = 3) =>
              /\ Len(chat_history') <= Len(chat_history)
              /\ n_gen' = n_gen /\ pc' = "idle" ]_vars

\* The third generation was asked with the repair request for the first error
\* followed by the fallback demand for the second, the two errors differing.
C7_Witness ==
    /\ pc = "try" /\ attempt = 2 /\ Len(chat_history) = 2
    /\ failures[1].msg # failures[2].msg
    /\ chat_history[1] = RepairTurn(failures[1].msg)
    /\ chat_history[2] = FallbackTurn(failures[2].msg)

\* C9.  One row per terminal outcome: when a script run ends, exactly one row
\* with status SUCCESS, SUCCESS_EMPTY, BLOCKED, FAILED or CHAT_ONLY has been
\* written for its question; a step that leaves the run going writes nothing;
\* and a write keeps every earlier row.
C9_OneRowPerOutcome ==
    [][ /\ IsPrefix(log, log')
        /\ pc' # "idle" => log' = log
        /\ pc' = "idle" =>
              /\ Len(RowsSince(log', log_mark')) = 1
              /\ RowsSince(log', log_mark')[1].status \in
                     {"SUCCESS", "SUCCESS_EMPTY", "BLOCKED", "FAILED", "CHAT_ONLY"} ]_vars

\* The step sends a candidate to the database and the database raises nothing.
ExecutionCompletes ==
    /\ n_exec' = n_exec + 1
    /\ ~( /\ Len(failures') > Len(failures)
          /\ failures'[Len(failures')].origin = "database" )

\* C12.  Recovery by retry: when the executions of attempts 1..k-1 failed in
\* the database and the execution of attempt k completes without error, the
\* run ends with that step after exactly k generation calls, with exactly one
\* row for the question, SUCCESS for a result with rows and SUCCESS_EMPTY for
\* an empty one, never FAILED, with the rolling history empty; and nothing is
\* generated or executed for the question afterwards.
C12_RecoveryByRetry ==
    [][ /\ ( /\ ExecutionCompletes
             /\ \A i \in 1..Len(failures) : failures[i].origin = "database" ) =>
              /\ pc' = "idle"
              /\ outcome' \in {"Success", "EmptySuccess"}
              /\ n_gen' = n_exec' /\ n_exec' = Len(failures) + 1
              /\ Len(RowsSince(log', log_mark')) = 1
              /\ RowsSince(log', log_mark')[1].status =
                     (IF outcome' = "Success" THEN "SUCCESS" ELSE "SUCCESS_EMPTY")
              /\ chat_history' = <<>>
        /\ (pc = "idle" /\ outcome \in {"Success", "EmptySuccess"}) =>
              FirstGeneration ]_vars

\* C13.  The directive is rebuilt from each reply: when a retry candidate
\* succeeds with rows, the chart type, title and comment handed to the
\* presentation layer are those of the reply that supplied the candidate, a
\* field absent from that reply taking its default (none, the default title,
\* the empty comment) and never the value of an earlier reply.
C13_DirectiveRebuilt ==
    [][ (pc = "try" /\ attempt > 0 /\ outcome' = "Success") =>
          /\ reply_msg'.sql = sanitize_sql(RetrySql(res)).sql
          /\ reply_msg'.chart =
                 (IF chart_match(res) THEN chart_group1(res) ELSE "none")
          /\ reply_msg'.title =
                 (IF FieldAt(res, "TITLE:") # 0
                  THEN Strip(field_group1(res, "TITLE:")) ELSE DefaultTitle)
          /\ reply_msg'.comment =
                 (IF FieldAt(res, "COMMENT:") # 0
                  THEN Strip(field_group1(res, "COMMENT:")) ELSE <<>>) ]_vars

\* Where the exception being handled was raised.
ErrorOrigin == failures[Len(failures)].origin

\* C14.  Errors are classified by origin: a run ends Blocked only when
\* sanitize_sql rejected the current candidate; an error raised by the database
\* on a sanitized candidate is retried while attempts remain and ends the run
\* as Exhausted with a FAILED row otherwise, whatever its message holds.
C14_ClassifiedByOrigin ==
    [][ pc = "except" =>
          /\ outcome' = "Blocked" =>
                 /\ ErrorOrigin = "sanitize_sql"
                 /\ sanitize_sql(sql_to_execute).raised
          /\ ErrorOrigin = "database" =>
                 IF attempt < max_retries - 1
                 THEN RetryGeneration /\ pc' = "try" /\ log' = log
                 ELSE /\ outcome' = "Exhausted"
                      /\ RowsSince(log', log_mark')[1].status = "FAILED" ]_vars

-----------------------------------------------------------------------------
(* Properties of the reply parser *)

\* C8.  Parser tolerance: parsing a reply never raises, whatever the reply; the
\* chart type it yields is one of line, bar, multi_bar, pie, dual_axis, none,
\* and none when no CHART: field matches; the title is the fixed default when
\* the reply has no TITLE: field, and the comment is empty when it has no
\* COMMENT: field.
C8_ParserTolerance ==
    p_out # NotParsed =>
        LET r == run_workflow(Question, <<>>, p_raw)
        IN  /\ ~p_out.raised
            /\ p_out.chart_type \in
                   {"line", "bar", "multi_bar", "pie", "dual_axis", "none"}
            /\ ~chart_match(r) => p_out.chart_type = "none"
            /\ FieldAt(r, "TITLE:") = 0 => p_out.title = DefaultTitle
            /\ FieldAt(r, "COMMENT:") = 0 => p_out.comment = <<>>

-----------------------------------------------------------------------------
(* Properties of sanitize_sql *)

\* C10.  sanitize_sql rejects every text that holds DROP, DELETE, UPDATE,
\* INSERT, ALTER, TRUNCATE, GRANT or REVOKE as a whole word in any letter case:
\* it raises the security violation and returns no text, whatever else the
\* text holds, LIMIT and aggregation keywords included.
C10_ForbiddenAlwaysRejected ==
    (san_out # NotRun /\ HoldsWord(san_in, ForbiddenKeywords))
        => san_out = Raised(ViolationMsg)

\* A text with a forbidden word not in upper case, and LIMIT, was rejected.
C10_Witness ==
    /\ san_out = Raised(ViolationMsg)
    /\ HoldsWord(san_in, {"LIMIT"})
    /\ \E i \in 1..Len(san_in) : san_in[i] \in {"drop", "Delete"}

\* The text holds GROUP BY, one blank between, as whole words in any case.
HoldsGroupBy(text) ==
    \E i \in 1..(Len(text) - 2) :
        /\ Upper(text[i]) = "GROUP" /\ text[i + 1] = SP /\ Upper(text[i + 2]) = "BY"
        /\ i > 1 => ~EndsWord(text[i - 1])
        /\ i + 2 < Len(text) => ~StartsWord(text[i + 3])

\* The text holds an aggregation keyword or LIMIT.
HoldsCapKeyword(text) ==
    \/ HoldsWord(text, {"SUM", "COUNT", "AVG", "MAX", "MIN", "LIMIT"})
    \/ HoldsGroupBy(text)

\* r is s without its surrounding white space and then without its trailing
\* semicolons, followed by " LIMIT 1000".
IsRowCapped(s, r) ==
    \E i \in 1..(Len(s) + 1), j \in 0..Len(s) :
        /\ r = Slice(s, i, j) \o <<SP, "LIMIT", SP, "1000">>
        /\ \A k \in 1..(i - 1) : IsSpace(s[k])
        /\ \A k \in (j + 1)..Len(s) :
               \/ IsSpace(s[k]) /\ \A m \in k..Len(s) : IsSpace(s[m])
               \/ s[k] = ";" /\ \A m \in (j + 1)..k : s[m] = ";"
        /\ i <= j => ~IsSpace(s[i]) /\ s[j] # ";"
        /\ (i <= j /\ IsSpace(s[j])) => (j < Len(s) /\ s[j + 1] = ";")
        /\ i > j => \A k \in 1..Len(s) : IsSpace(s[k]) \/ s[k] = ";"

\* C11.  Row cap: on a text with no forbidden keyword as a whole word
\* sanitize_sql returns a value; when the text holds neither an aggregation
\* keyword (SUM, COUNT, AVG, MAX, MIN, GROUP BY) nor LIMIT, the value is the
\* text with its surrounding white space and trailing semicolons removed,
\* followed by " LIMIT 1000"; when the text holds LIMIT or an aggregation
\* keyword, the value is the text itself.
C11_RowCap ==
    (san_out # NotRun /\ ~HoldsWord(san_in, ForbiddenKeywords)) =>
        /\ ~san_out.raised
        /\ ~HoldsCapKeyword(san_in) => IsRowCapped(san_in, san_out.sql)
        /\ HoldsCapKeyword(san_in) => san_out.sql = san_in

\* A text with leading white space and a trailing semicolon came back capped.
C11_Witness ==
    /\ san_in = <<SP, "x", ";">>
    /\ san_out = Returned(<<"x", SP, "LIMIT", SP, "1000">>)

====
